---- MODULE Spec2Model ----
(***************************************************************************)
(* Model of the tox cookie (dht/packet/cookie.rs) and of the OnionRequest1 *)
(* packet (onion/packet/onion_request_1.rs).                               *)
(*                                                                         *)
(* Bytes are naturals 0..255, byte strings are sequences of bytes.  A u64  *)
(* is kept at its full width as four 16-bit limbs, most significant first, *)
(* so that the arithmetic of is_timed_out is the 64-bit arithmetic of the  *)
(* program.  The crypto primitives (secretbox seal/open, seal_precomputed/ *)
(* open_precomputed), the IpPort codec, the OnionReturn codec and the      *)
(* onion size constants live outside the modelled files; they are modelled *)
(* from their documented contract.                                         *)
(***************************************************************************)
EXTENDS Integers, Sequences, FiniteSets, TLC

VARIABLES
    subject,   \* which structure this run operates on: "timeout", "cookie", "onion", "hop"
    now,       \* the clock: unix_time(SystemTime::now()), a u64
    cookie,    \* the Cookie at hand
    tres,      \* outcome of the last Cookie::is_timed_out call
    ec,        \* the EncryptedCookie at hand
    origin,    \* how ec / req came to be (builder, key, plaintext): the caller's knowledge
    gkey,      \* the key handed to the last get_payload call
    cres,      \* result of the last EncryptedCookie::get_payload call
    req,       \* the OnionRequest1 at hand
    wire,      \* the bytes handed to OnionRequest1::from_bytes
    parsed,    \* result of the last OnionRequest1::from_bytes call
    ores,      \* result of the last OnionRequest1::get_payload call
    stage,     \* where the hop is with the onion packet it received
    fwd        \* what the hop forwards: ip_port, inner, temporary_pk

----------------------------------------------------------------------------
(* Bounds of the explored inputs *)

\* clock and timestamp values are taken within MaxSmall of 0 and of u64::MAX
MaxSmall == 17
\* number of distinct symmetric keys / shared secrets
NumKeys == 2
\* number of distinct public keys
NumPks == 2
\* number of distinct nonces
NumNonces == 2
\* ciphertexts are truncated / extended by 1..MaxCut bytes
MaxCut == 2

----------------------------------------------------------------------------
(* Bytes and byte strings *)

Rep(n, b) == [i \in 1..n |-> b]

Min(a, b) == IF a < b THEN a ELSE b

Drop(s, n) == SubSeq(s, n + 1, Len(s))

Take(s, n) == SubSeq(s, 1, Min(n, Len(s)))

RECURSIVE RangeSum(_, _, _)
RangeSum(s, lo, hi) ==
    IF lo > hi THEN 0
    ELSE IF lo = hi THEN s[lo]
    ELSE LET mid == (lo + hi) \div 2
         IN  RangeSum(s, lo, mid) + RangeSum(s, mid + 1, hi)

RECURSIVE RangeWSum(_, _, _)
RangeWSum(s, lo, hi) ==
    IF lo > hi THEN 0
    ELSE IF lo = hi THEN (s[lo] * ((lo % 251) + 1)) % 65521
    ELSE LET mid == (lo + hi) \div 2
         IN  (RangeWSum(s, lo, mid) + RangeWSum(s, mid + 1, hi)) % 65521

----------------------------------------------------------------------------
(* u64: four 16-bit limbs, most significant first *)

Limb == 65536

U64(v) == <<0, 0, 0, v>>

\* a + b in u64: the wrapped sum and whether it overflowed
u64_add(a, b) ==
    LET s4 == a[4] + b[4]
        s3 == a[3] + b[3] + (s4 \div Limb)
        s2 == a[2] + b[2] + (s3 \div Limb)
        s1 == a[1] + b[1] + (s2 \div Limb)
    IN  [val |-> <<s1 % Limb, s2 % Limb, s3 % Limb, s4 % Limb>>,
         overflow |-> s1 \div Limb > 0]

\* a - b in u64, wrapping
u64_sub(a, b) ==
    LET d4 == a[4] - b[4]
        b4 == IF d4 < 0 THEN 1 ELSE 0
        d3 == a[3] - b[3] - b4
        b3 == IF d3 < 0 THEN 1 ELSE 0
        d2 == a[2] - b[2] - b3
        b2 == IF d2 < 0 THEN 1 ELSE 0
        d1 == a[1] - b[1] - b2
    IN  <<d1 % Limb, d2 % Limb, d3 % Limb, d4 % Limb>>

u64_lt(a, b) ==
    \E i \in 1..4 : a[i] < b[i] /\ \A j \in 1..(i - 1) : a[j] = b[j]

\* fault: the timestamp written least significant byte first
gen_le_u64(t) ==
    <<t[4] % 256, t[4] \div 256, t[3] % 256, t[3] \div 256,
      t[2] % 256, t[2] \div 256, t[1] % 256, t[1] \div 256>>

\* gen_be_u64!: the 8 bytes of a u64, big endian
gen_be_u64(t) ==
    <<t[1] \div 256, t[1] % 256, t[2] \div 256, t[2] % 256,
      t[3] \div 256, t[3] % 256, t[4] \div 256, t[4] % 256>>

\* nom's be_u64 on the first 8 bytes of b
be_u64(b) ==
    <<b[1] * 256 + b[2], b[3] * 256 + b[4], b[5] * 256 + b[6], b[7] * 256 + b[8]>>

----------------------------------------------------------------------------
(* Sizes *)

PUBLICKEYBYTES == 32
NONCEBYTES == 24
MACBYTES == 16
COOKIE_TIMEOUT == 15
\* the scratch buffer of EncryptedCookie::new
COOKIE_BUF == 72

----------------------------------------------------------------------------
(* Authenticated encryption: secretbox::seal / open and                    *)
(* seal_precomputed / open_precomputed.  The output is a 16-byte tag       *)
(* followed by a ciphertext as long as the plaintext; open recomputes the  *)
(* tag over key, nonce and ciphertext and fails closed on any mismatch.    *)

KeyStream(k, n, i) ==
    (k[((i - 1) % PUBLICKEYBYTES) + 1] + n[((i - 1) % NONCEBYTES) + 1] + i) % 256

\* the digest bytes of a byte string: its sum and its weighted sum, each modulo 256
\* and modulo 251
Digest(x) ==
    LET a == RangeSum(x, 1, Len(x))
        w == RangeWSum(x, 1, Len(x))
    IN  <<a % 256, a % 251, w % 256, w % 251>>

Mac(k, n, body) ==
    LET dk == Digest(k)
        dn == Digest(n)
        db == Digest(body)
    IN  dk \o dn \o db
           \o <<Len(body) % 256, Len(body) \div 256,
                (dk[1] + dn[2] + db[3]) % 256, (dk[4] + dn[3] + db[2]) % 256>>

seal(m, n, k) ==
    LET body == [i \in 1..Len(m) |-> (m[i] + KeyStream(k, n, i)) % 256]
    IN  Mac(k, n, body) \o body

\* Result<Vec<u8>, ()>
open(c, n, k) ==
    IF Len(c) < MACBYTES THEN [ok |-> FALSE, val |-> <<>>]
    ELSE LET body == Drop(c, MACBYTES)
         IN  IF Take(c, MACBYTES) # Mac(k, n, body) THEN [ok |-> FALSE, val |-> <<>>]
             ELSE [ok |-> TRUE,
                   val |-> [i \in 1..Len(body) |->
                               (body[i] + 256 - KeyStream(k, n, i)) % 256]]

----------------------------------------------------------------------------
(* Result<T, std::io::Error> and nom's IResult *)

NoVal == <<>>

NoResult == [tag |-> "none", val |-> NoVal, kind |-> "", msg |-> ""]

Ok(v) == [tag |-> "ok", val |-> v, kind |-> "", msg |-> ""]

\* Error::new(kind, msg)
Err(kind, msg) == [tag |-> "err", val |-> NoVal, kind |-> kind, msg |-> msg]

\* IResult::Done(rest, value)
Done(rest, v) == [status |-> "Done", rest |-> rest, val |-> v, err |-> ""]

\* IResult::Incomplete(Needed)
Incomplete == [status |-> "Incomplete", rest |-> <<>>, val |-> NoVal, err |-> "Incomplete"]

\* IResult::Error(ErrorKind)
ParseError(k) == [status |-> "Error", rest |-> <<>>, val |-> NoVal, err |-> k]

----------------------------------------------------------------------------
(* Cookie *)

\* Cookie::new: stamps the current time
Cookie_new(real_pk, dht_pk, clock) ==
    [time |-> clock, real_pk |-> real_pk, dht_pk |-> dht_pk]

\* Cookie::is_timed_out: self.time + COOKIE_TIMEOUT < now, in u64.  An overflowing
\* sum panics in a build with overflow checks ("debug") and wraps without ("release").
is_timed_out(c, clock, build) ==
    LET s == u64_add(c.time, U64(COOKIE_TIMEOUT))
    IN  IF s.overflow /\ build = "debug" THEN [panicked |-> TRUE, value |-> FALSE]
        ELSE [panicked |-> FALSE, value |-> u64_lt(s.val, clock)]

\* ToBytes for Cookie
Cookie_to_bytes(c) == gen_be_u64(c.time) \o c.real_pk \o c.dht_pk

\* fault: the parser without its eof!(): trailing bytes are left unread
Cookie_from_bytes_no_eof(b) ==
    IF Len(b) < 8 + 2 * PUBLICKEYBYTES THEN Incomplete
    ELSE Done(Drop(b, 8 + 2 * PUBLICKEYBYTES),
              [time |-> be_u64(b),
               real_pk |-> SubSeq(b, 9, 8 + PUBLICKEYBYTES),
               dht_pk |-> SubSeq(b, 9 + PUBLICKEYBYTES, 8 + 2 * PUBLICKEYBYTES)])

\* FromBytes for Cookie: be_u64, two public keys, eof!()
Cookie_from_bytes(b) ==
    IF Len(b) < 8 + 2 * PUBLICKEYBYTES THEN Incomplete
    ELSE IF Len(b) > 8 + 2 * PUBLICKEYBYTES THEN ParseError("Eof")
    ELSE Done(<<>>, [time |-> be_u64(b),
                     real_pk |-> SubSeq(b, 9, 8 + PUBLICKEYBYTES),
                     dht_pk |-> SubSeq(b, 9 + PUBLICKEYBYTES, 8 + 2 * PUBLICKEYBYTES)])

\* EncryptedCookie::new, with the nonce gen_nonce() drew
EncryptedCookie_new(symmetric_key, payload, nonce) ==
    LET bytes == Cookie_to_bytes(payload)
    IN  [nonce |-> nonce, payload |-> seal(Take(bytes, COOKIE_BUF), nonce, symmetric_key)]

CookieDecryptError == Err("Other", "Cookie decrypt error.")

\* fault: the parse failure reported under an error kind of its own
CookieParseError_InvalidData(e) ==
    Err("InvalidData", "Cookie return deserialize error: " \o e)

CookieParseError(e) == Err("Other", "Cookie return deserialize error: " \o e)

\* EncryptedCookie::get_payload
EncryptedCookie_get_payload(self, symmetric_key) ==
    LET decrypted == open(self.payload, self.nonce, symmetric_key)
    IN  IF ~decrypted.ok THEN CookieDecryptError
        ELSE LET r == Cookie_from_bytes(decrypted.val)
             IN  IF r.status = "Done" THEN Ok(r.val) ELSE CookieParseError(r.err)

----------------------------------------------------------------------------
(* Onion packet constants and the codecs of onion/packet *)

ONION_MAX_PACKET_SIZE == 1400
ONION_RETURN_1_SIZE == 59
SIZE_IPPORT == 19
IPV4_PADDING_SIZE == 12
\* the tag byte 0x81
ONION_REQUEST_1_TAG == 129

\* IpPort: a type byte (2: IPv4, 10: IPv6), the address padded to 16 bytes, the port
IpPort_to_bytes(ip) ==
    <<ip.ip_type>> \o ip.addr
        \o (IF ip.ip_type = 2 THEN Rep(IPV4_PADDING_SIZE, 0) ELSE <<>>)
        \o <<ip.port \div 256, ip.port % 256>>

IpPort_from_bytes(b) ==
    IF Len(b) < 1 THEN Incomplete
    ELSE IF b[1] \notin {2, 10} THEN ParseError("Switch")
    ELSE IF Len(b) < SIZE_IPPORT THEN Incomplete
    ELSE Done(Drop(b, SIZE_IPPORT),
              [ip_type |-> b[1],
               addr |-> IF b[1] = 2 THEN SubSeq(b, 2, 5) ELSE SubSeq(b, 2, 17),
               port |-> b[18] * 256 + b[19]])

\* OnionReturn: a nonce and an encrypted payload
OnionReturn_to_bytes(r) == r.nonce \o r.payload

OnionReturn_from_bytes(b) ==
    IF Len(b) < NONCEBYTES THEN Incomplete
    ELSE Done(<<>>, [nonce |-> Take(b, NONCEBYTES), payload |-> Drop(b, NONCEBYTES)])

----------------------------------------------------------------------------
(* OnionRequest1 *)

\* the fixed header: tag byte, nonce, temporary public key
ONION_HEADER == 1 + NONCEBYTES + PUBLICKEYBYTES

\* fault: the size check written with < instead of <=
OnionRequest1_from_bytes_strict(b) ==
    IF ~(Len(b) < ONION_MAX_PACKET_SIZE) THEN ParseError("Verify")
    ELSE IF Len(b) < 1 THEN Incomplete
    ELSE IF b[1] # ONION_REQUEST_1_TAG THEN ParseError("Tag")
    ELSE IF Len(b) < ONION_HEADER THEN Incomplete
    ELSE LET rest_len == Len(b) - ONION_HEADER
         IN  IF ~(rest_len >= ONION_RETURN_1_SIZE) THEN ParseError("CondReduce")
             ELSE LET cut == ONION_HEADER + (rest_len - ONION_RETURN_1_SIZE)
                      ret == OnionReturn_from_bytes(Drop(b, cut))
                  IN  IF ret.status # "Done" THEN ret
                      ELSE Done(ret.rest,
                                [nonce |-> SubSeq(b, 2, 1 + NONCEBYTES),
                                 temporary_pk |-> SubSeq(b, 2 + NONCEBYTES, ONION_HEADER),
                                 payload |-> SubSeq(b, ONION_HEADER + 1, cut),
                                 onion_return |-> ret.val])

\* FromBytes for OnionRequest1
OnionRequest1_from_bytes(b) ==
    IF ~(Len(b) <= ONION_MAX_PACKET_SIZE) THEN ParseError("Verify")
    ELSE IF Len(b) < 1 THEN Incomplete
    ELSE IF b[1] # ONION_REQUEST_1_TAG THEN ParseError("Tag")
    ELSE IF Len(b) < 1 + NONCEBYTES THEN Incomplete
    ELSE IF Len(b) < ONION_HEADER THEN Incomplete
    ELSE LET rest_len == Len(b) - ONION_HEADER
         IN  IF ~(rest_len >= ONION_RETURN_1_SIZE) THEN ParseError("CondReduce")
             ELSE LET cut == ONION_HEADER + (rest_len - ONION_RETURN_1_SIZE)
                      ret == OnionReturn_from_bytes(Drop(b, cut))
                  IN  IF ret.status # "Done" THEN ret
                      ELSE Done(ret.rest,
                                [nonce |-> SubSeq(b, 2, 1 + NONCEBYTES),
                                 temporary_pk |-> SubSeq(b, 2 + NONCEBYTES, ONION_HEADER),
                                 payload |-> SubSeq(b, ONION_HEADER + 1, cut),
                                 onion_return |-> ret.val])

\* fault: the return trailer written before the payload
OnionRequest1_to_bytes_return_first(x) ==
    <<ONION_REQUEST_1_TAG>> \o x.nonce \o x.temporary_pk
        \o OnionReturn_to_bytes(x.onion_return) \o x.payload

\* ToBytes for OnionRequest1
OnionRequest1_to_bytes(x) ==
    <<ONION_REQUEST_1_TAG>> \o x.nonce \o x.temporary_pk \o x.payload
        \o OnionReturn_to_bytes(x.onion_return)

\* ToBytes for OnionRequest1Payload
OnionRequest1Payload_to_bytes(p) ==
    IpPort_to_bytes(p.ip_port) \o p.temporary_pk \o p.inner

\* fault: the key read as whatever follows the IpPort, up to 32 bytes
OnionRequest1Payload_from_bytes_short_key(b) ==
    LET ip == IpPort_from_bytes(b)
    IN  IF ip.status # "Done" THEN ip
        ELSE Done(<<>>, [ip_port |-> ip.val,
                         temporary_pk |-> Take(ip.rest, PUBLICKEYBYTES),
                         inner |-> Drop(ip.rest, Min(PUBLICKEYBYTES, Len(ip.rest)))])

\* FromBytes for OnionRequest1Payload: IpPort, public key, rest
OnionRequest1Payload_from_bytes(b) ==
    LET ip == IpPort_from_bytes(b)
    IN  IF ip.status # "Done" THEN ip
        ELSE IF Len(ip.rest) < PUBLICKEYBYTES THEN Incomplete
        ELSE Done(<<>>, [ip_port |-> ip.val,
                         temporary_pk |-> Take(ip.rest, PUBLICKEYBYTES),
                         inner |-> Drop(ip.rest, PUBLICKEYBYTES)])

NoReq == [nonce |-> <<>>, temporary_pk |-> <<>>, payload |-> <<>>,
          onion_return |-> [nonce |-> <<>>, payload |-> <<>>]]

\* fault: the packet given the payload's temporary key instead of its own
OnionRequest1_new_inner_pk(shared_secret, temporary_pk, payload, onion_return, nonce) ==
    LET bytes == OnionRequest1Payload_to_bytes(payload)
    IN  IF Len(bytes) > ONION_MAX_PACKET_SIZE THEN [panicked |-> TRUE, val |-> NoReq]
        ELSE [panicked |-> FALSE,
              val |-> [nonce |-> nonce,
                       temporary_pk |-> payload.temporary_pk,
                       payload |-> seal(bytes, nonce, shared_secret),
                       onion_return |-> onion_return]]

\* OnionRequest1::new, with the nonce gen_nonce() drew.  The payload is written to a
\* buffer of ONION_MAX_PACKET_SIZE bytes and the result unwrapped: a payload that does
\* not fit panics.
OnionRequest1_new(shared_secret, temporary_pk, payload, onion_return, nonce) ==
    LET bytes == OnionRequest1Payload_to_bytes(payload)
    IN  IF Len(bytes) > ONION_MAX_PACKET_SIZE THEN [panicked |-> TRUE, val |-> NoReq]
        ELSE [panicked |-> FALSE,
              val |-> [nonce |-> nonce,
                       temporary_pk |-> temporary_pk,
                       payload |-> seal(bytes, nonce, shared_secret),
                       onion_return |-> onion_return]]

OnionDecryptError == Err("Other", "OnionRequest1 decrypt error: ()")

OnionParseError(e) == Err("Other", "OnionRequest1Payload deserialize error: " \o e)

\* get_payload that parses the payload behind the tag without opening it
OnionRequest1_get_payload_unauthenticated(self, shared_secret) ==
    LET r == OnionRequest1Payload_from_bytes(Drop(self.payload, MACBYTES))
    IN  IF r.status = "Done" THEN Ok(r.val) ELSE OnionParseError(r.err)

\* OnionRequest1::get_payload
OnionRequest1_get_payload(self, shared_secret) ==
    LET decrypted == open(self.payload, self.nonce, shared_secret)
    IN  IF ~decrypted.ok THEN OnionDecryptError
        ELSE LET r == OnionRequest1Payload_from_bytes(decrypted.val)
             IN  IF r.status = "Done" THEN Ok(r.val) ELSE OnionParseError(r.err)

----------------------------------------------------------------------------
(* Inputs *)

Builds == {"debug", "release"}

Small(v) == U64(v)

Big(v) == <<Limb - 1, Limb - 1, Limb - 1, Limb - 1 - v>>

\* u64 values near 0, near u64::MAX, and around a limb boundary
Times ==
    {Small(v) : v \in 0..MaxSmall} \cup {Big(v) : v \in 0..MaxSmall}
        \cup {<<0, 0, 0, Limb - 1>>, <<0, 0, 1, 0>>, <<258, 772, 1286, 1800>>}

Keys == {[i \in 1..PUBLICKEYBYTES |-> (b * 16 + i) % 256] : b \in 1..NumKeys}

PKs == {[i \in 1..PUBLICKEYBYTES |-> (b * 7 + 3 * i) % 256] : b \in 1..NumPks}

Nonces == {[i \in 1..NONCEBYTES |-> (b * 5 + i) % 256] : b \in 1..NumNonces}

NoCookie == [time |-> U64(0), real_pk |-> <<>>, dht_pk |-> <<>>]

NoEc == [nonce |-> <<>>, payload |-> <<>>]

NoOrigin == [kind |-> "none", key |-> <<>>, plain |-> <<>>, pk |-> <<>>, ret |-> <<>>]

\* timestamps of the cookies that get encrypted
CookieTimes ==
    {Small(0), Small(12345), Big(0), <<0, 0, 1, 0>>, <<258, 772, 1286, 1800>>}

\* plaintext lengths sealed directly, as the tests do with [42; 123] and []
RawLens == {0, COOKIE_BUF - 1, COOKIE_BUF, COOKIE_BUF + 1, 123}

NoTres == [called |-> FALSE, panicked |-> FALSE, value |-> FALSE]

----------------------------------------------------------------------------
(* The timeout run: a cookie, a clock, and calls of is_timed_out *)

\* time passes
ClockAdvance ==
    /\ subject = "timeout"
    /\ ~u64_add(now, U64(1)).overflow
    /\ u64_add(now, U64(1)).val \in Times
    /\ now' = u64_add(now, U64(1)).val
    /\ tres' = NoTres
    /\ UNCHANGED <<subject, cookie, ec, origin, gkey, cres, req, wire, parsed, ores, stage, fwd>>

\* Cookie::new(real_pk, dht_pk)
CookieNew ==
    /\ subject = "timeout"
    /\ tres.called
    /\ \E r \in PKs, d \in PKs : cookie' = Cookie_new(r, d, now)
    /\ tres' = NoTres
    /\ UNCHANGED <<subject, now, ec, origin, gkey, cres, req, wire, parsed, ores, stage, fwd>>

\* the pub field written directly, as tests::cookie_timed_out does
SetTime ==
    /\ subject = "timeout"
    /\ cookie.time = now
    /\ \E t \in Times : cookie' = [cookie EXCEPT !.time = t]
    /\ tres' = NoTres
    /\ UNCHANGED <<subject, now, ec, origin, gkey, cres, req, wire, parsed, ores, stage, fwd>>

\* cookie.is_timed_out()
IsTimedOut ==
    /\ subject = "timeout"
    /\ \E build \in Builds :
          LET r == is_timed_out(cookie, now, build)
          IN  tres' = [called |-> TRUE, panicked |-> r.panicked, value |-> r.value]
    /\ UNCHANGED <<subject, now, cookie, ec, origin, gkey, cres, req, wire, parsed, ores, stage, fwd>>

----------------------------------------------------------------------------
(* The cookie run: a cookie is sealed, possibly altered in transit, opened *)

\* a Cookie value
MakeCookie ==
    /\ subject = "cookie"
    /\ cookie = NoCookie
    /\ \E t \in CookieTimes, r \in PKs, d \in PKs :
          cookie' = [time |-> t, real_pk |-> r, dht_pk |-> d]
    /\ ec' = NoEc
    /\ origin' = NoOrigin
    /\ gkey' = <<>>
    /\ cres' = NoResult
    /\ UNCHANGED <<subject, now, tres, req, wire, parsed, ores, stage, fwd>>

\* EncryptedCookie::new(&symmetric_key, &cookie)
Encrypt ==
    /\ subject = "cookie"
    /\ cookie # NoCookie
    /\ ec = NoEc
    /\ \E k \in Keys, n \in Nonces :
          /\ ec' = EncryptedCookie_new(k, cookie, n)
          /\ origin' = [kind |-> "new", key |-> k, plain |-> Cookie_to_bytes(cookie),
                        pk |-> <<>>, ret |-> <<>>]
    /\ gkey' = <<>>
    /\ cres' = NoResult
    /\ UNCHANGED <<subject, now, cookie, tres, req, wire, parsed, ores, stage, fwd>>

\* an EncryptedCookie whose payload seals arbitrary bytes (tests::cookie_encrypt_decrypt_invalid)
SealRaw ==
    /\ subject = "cookie"
    /\ cookie = NoCookie
    /\ ec = NoEc
    /\ \E k \in Keys, n \in Nonces, len \in RawLens :
          /\ ec' = [nonce |-> n, payload |-> seal(Rep(len, 42), n, k)]
          /\ origin' = [kind |-> "raw", key |-> k, plain |-> Rep(len, 42),
                        pk |-> <<>>, ret |-> <<>>]
    /\ gkey' = <<>>
    /\ cres' = NoResult
    /\ UNCHANGED <<subject, now, cookie, tres, req, wire, parsed, ores, stage, fwd>>

\* one byte of the payload changed
FlipByte ==
    /\ subject = "cookie"
    /\ origin.kind = "new"
    /\ \E p \in {1, MACBYTES, MACBYTES + 1, Len(ec.payload)}, d \in {1, 128} :
          ec' = [ec EXCEPT !.payload[p] = (@ + d) % 256]
    /\ origin' = [origin EXCEPT !.kind = "altered"]
    /\ gkey' = <<>>
    /\ cres' = NoResult
    /\ UNCHANGED <<subject, now, cookie, tres, req, wire, parsed, ores, stage, fwd>>

\* the payload cut short
Truncate ==
    /\ subject = "cookie"
    /\ origin.kind = "new"
    /\ \E n \in 1..MaxCut :
          ec' = [ec EXCEPT !.payload = Take(@, Len(@) - n)]
    /\ origin' = [origin EXCEPT !.kind = "altered"]
    /\ gkey' = <<>>
    /\ cres' = NoResult
    /\ UNCHANGED <<subject, now, cookie, tres, req, wire, parsed, ores, stage, fwd>>

\* bytes appended to the payload
Extend ==
    /\ subject = "cookie"
    /\ origin.kind = "new"
    /\ \E n \in 1..MaxCut, b \in {0, 42} :
          ec' = [ec EXCEPT !.payload = @ \o Rep(n, b)]
    /\ origin' = [origin EXCEPT !.kind = "altered"]
    /\ gkey' = <<>>
    /\ cres' = NoResult
    /\ UNCHANGED <<subject, now, cookie, tres, req, wire, parsed, ores, stage, fwd>>

\* the nonce replaced by another
ChangeNonce ==
    /\ subject = "cookie"
    /\ origin.kind = "new"
    /\ \E n \in Nonces \ {ec.nonce} : ec' = [ec EXCEPT !.nonce = n]
    /\ origin' = [origin EXCEPT !.kind = "altered"]
    /\ gkey' = <<>>
    /\ cres' = NoResult
    /\ UNCHANGED <<subject, now, cookie, tres, req, wire, parsed, ores, stage, fwd>>

\* encrypted_cookie.get_payload(&symmetric_key)
GetPayload ==
    /\ subject = "cookie"
    /\ ec # NoEc
    /\ \E k \in Keys :
          /\ gkey' = k
          /\ cres' = EncryptedCookie_get_payload(ec, k)
    /\ UNCHANGED <<subject, now, cookie, tres, ec, origin, req, wire, parsed, ores, stage, fwd>>

----------------------------------------------------------------------------
(* The onion run: a packet is built, serialized, parsed and opened *)

Bytes(n, seed) == [i \in 1..n |-> (seed + 3 * i) % 256]

IpPorts ==
    {[ip_type |-> 2, addr |-> <<5, 6, 7, 8>>, port |-> 12345],
     [ip_type |-> 10, addr |-> Bytes(16, 1), port |-> 33445]}

\* the return trailer a packet with nonce n carries: a nonce of its own and a payload
\* that fills ONION_RETURN_1_SIZE
ReturnFor(n) ==
    [nonce |-> CHOOSE m \in Nonces : m # n,
     payload |-> Bytes(ONION_RETURN_1_SIZE - NONCEBYTES, 42 + n[1])]

\* the next hop's temporary key, another one than the packet's
NextPk(pk) == CHOOSE q \in PKs : q # pk

\* the largest inner whose payload still fits the scratch buffer of new
MaxInnerFit == ONION_MAX_PACKET_SIZE - SIZE_IPPORT - PUBLICKEYBYTES

\* the largest inner whose packet is still within ONION_MAX_PACKET_SIZE
MaxInnerWire ==
    ONION_MAX_PACKET_SIZE - ONION_HEADER - ONION_RETURN_1_SIZE - MACBYTES
        - SIZE_IPPORT - PUBLICKEYBYTES

InnerLens == {0, 2, MaxInnerWire, MaxInnerWire + 1, MaxInnerFit, MaxInnerFit + 1}

OnionPayloads(pk) ==
    {[ip_port |-> ip, temporary_pk |-> NextPk(pk), inner |-> Bytes(len, 42)] :
        ip \in IpPorts, len \in InnerLens}

\* plaintexts sealed directly, as tests::onion_request_1_decrypt_invalid does
OnionRawPlains ==
    {<<>>,
     Rep(123, 42),
     <<2>>,
     Take(IpPort_to_bytes(CHOOSE ip \in IpPorts : ip.ip_type = 2), SIZE_IPPORT - 1),
     IpPort_to_bytes(CHOOSE ip \in IpPorts : ip.ip_type = 10),
     IpPort_to_bytes(CHOOSE ip \in IpPorts : ip.ip_type = 10) \o Rep(PUBLICKEYBYTES - 1, 7),
     IpPort_to_bytes(CHOOSE ip \in IpPorts : ip.ip_type = 2) \o Rep(PUBLICKEYBYTES, 7),
     <<2, 5, 6, 7, 8>> \o Rep(IPV4_PADDING_SIZE, 9) \o <<48, 57>> \o Rep(PUBLICKEYBYTES + 3, 7),
     <<4>> \o Rep(SIZE_IPPORT + PUBLICKEYBYTES + 5, 7)}

\* payloads of packets written as struct literals, as tests::onion_request_1_encode_decode does
LiteralPayloads ==
    {<<>>, <<42, 123>>,
     Bytes(ONION_MAX_PACKET_SIZE - ONION_HEADER - ONION_RETURN_1_SIZE, 5),
     Bytes(ONION_MAX_PACKET_SIZE - ONION_HEADER - ONION_RETURN_1_SIZE + 1, 5)}

\* lengths of the byte strings received from the network
WireLens ==
    {0, 1, NONCEBYTES, ONION_HEADER - 1, ONION_HEADER, ONION_HEADER + ONION_RETURN_1_SIZE - 1,
     ONION_HEADER + ONION_RETURN_1_SIZE, ONION_MAX_PACKET_SIZE - 1, ONION_MAX_PACKET_SIZE,
     ONION_MAX_PACKET_SIZE + 1}

NoParsed == [status |-> "none", rest |-> <<>>, val |-> NoVal, err |-> ""]

\* OnionRequest1::new(&shared_secret, &temporary_pk, payload, onion_return)
OnionNew ==
    /\ subject = "onion"
    /\ origin.kind = "none"
    /\ \E k \in Keys, pk \in PKs, n \in Nonces :
          \E p \in OnionPayloads(pk) :
              LET x == OnionRequest1_new(k, pk, p, ReturnFor(n), n)
              IN  /\ req' = x.val
                  /\ origin' = [kind |-> IF x.panicked THEN "panic" ELSE "new",
                                key |-> k, plain |-> p, pk |-> pk, ret |-> ReturnFor(n)]
    /\ UNCHANGED <<subject, now, cookie, tres, ec, gkey, cres, wire, parsed, ores, stage, fwd>>

\* an OnionRequest1 whose payload seals arbitrary bytes
OnionSealRaw ==
    /\ subject = "onion"
    /\ origin.kind = "none"
    /\ \E k \in Keys, pk \in PKs, n \in Nonces, m \in OnionRawPlains :
          /\ req' = [nonce |-> n, temporary_pk |-> pk,
                     payload |-> seal(m, n, k), onion_return |-> ReturnFor(n)]
          /\ origin' = [kind |-> "raw", key |-> k, plain |-> m, pk |-> pk,
                        ret |-> ReturnFor(n)]
    /\ UNCHANGED <<subject, now, cookie, tres, ec, gkey, cres, wire, parsed, ores, stage, fwd>>

\* an OnionRequest1 written as a struct literal
OnionLiteral ==
    /\ subject = "onion"
    /\ origin.kind = "none"
    /\ \E pk \in PKs, n \in Nonces, c \in LiteralPayloads :
          /\ req' = [nonce |-> n, temporary_pk |-> pk, payload |-> c,
                     onion_return |-> ReturnFor(n)]
          /\ origin' = [kind |-> "literal", key |-> <<>>, plain |-> <<>>, pk |-> pk,
                        ret |-> ReturnFor(n)]
    /\ UNCHANGED <<subject, now, cookie, tres, ec, gkey, cres, wire, parsed, ores, stage, fwd>>

\* packet.to_bytes(..): the packet goes on the wire
OnionToBytes ==
    /\ subject = "onion"
    /\ origin.kind \in {"new", "raw", "literal"}
    /\ wire = <<>>
    /\ ores = NoResult
    /\ wire' = OnionRequest1_to_bytes(req)
    /\ parsed' = NoParsed
    /\ UNCHANGED <<subject, now, cookie, tres, ec, origin, gkey, cres, req, ores, stage, fwd>>

\* bytes of any length and tag arrive from the network
WireInput ==
    /\ subject = "onion"
    /\ origin.kind = "none"
    /\ \E len \in WireLens, tag \in {ONION_REQUEST_1_TAG, ONION_REQUEST_1_TAG - 1} :
          wire' = Take(<<tag>>, len) \o Bytes(len - 1, 11)
    /\ origin' = [NoOrigin EXCEPT !.kind = "wire"]
    /\ parsed' = NoParsed
    /\ UNCHANGED <<subject, now, cookie, tres, ec, gkey, cres, req, ores, stage, fwd>>

\* OnionRequest1::from_bytes(&wire)
OnionFromBytes ==
    /\ subject = "onion"
    /\ \/ origin.kind = "wire"
       \/ origin.kind \in {"new", "raw", "literal"} /\ wire # <<>>
    /\ parsed.status = "none"
    /\ parsed' = OnionRequest1_from_bytes(wire)
    /\ UNCHANGED <<subject, now, cookie, tres, ec, origin, gkey, cres, req, wire, ores, stage, fwd>>

\* packet.get_payload(&shared_secret)
OnionGetPayload ==
    /\ subject = "onion"
    /\ origin.kind \in {"new", "raw"}
    /\ wire = <<>>
    /\ \E k \in Keys :
          /\ gkey' = k
          /\ ores' = OnionRequest1_get_payload(req, k)
    /\ UNCHANGED <<subject, now, cookie, tres, ec, origin, cres, req, wire, parsed, stage, fwd>>

----------------------------------------------------------------------------
(* The hop: one received onion packet, from receipt to drop or forward *)

NoFwd == [sent |-> FALSE, ip_port |-> NoVal, inner |-> <<>>, temporary_pk |-> <<>>]

\* inner lengths of the packets a previous hop builds for this one
HopInnerLens == {0, 2, MaxInnerWire, MaxInnerWire + 1}

\* a received packet: the bytes, and what their sender did to make them
HopPacket(kind, key, plain, bytes) ==
    [origin |-> [kind |-> kind, key |-> key, plain |-> plain, pk |-> <<>>, ret |-> <<>>],
     wire |-> bytes]

\* packets built by the previous hop with OnionRequest1::new under the secret k
HopBuilt ==
    {LET p == [ip_port |-> ip, temporary_pk |-> NextPk(pk), inner |-> Bytes(len, 42)]
     IN  HopPacket("built", k, OnionRequest1Payload_to_bytes(p),
             OnionRequest1_to_bytes(OnionRequest1_new(k, pk, p, ReturnFor(n), n).val)) :
        k \in Keys, pk \in PKs, n \in Nonces, ip \in IpPorts, len \in HopInnerLens}

\* packets whose payload is an arbitrary plaintext sealed under the secret k
HopSealed ==
    {HopPacket("sealed", k, plain,
         OnionRequest1_to_bytes(
             [nonce |-> n, temporary_pk |-> CHOOSE pk \in PKs : TRUE,
              payload |-> seal(plain, n, k), onion_return |-> ReturnFor(n)])) :
        k \in Keys, n \in Nonces, plain \in OnionRawPlains}

\* packets whose payload is a well-formed plaintext behind a made-up tag, never sealed
HopForged ==
    {LET plain == OnionRequest1Payload_to_bytes(
                      [ip_port |-> ip, temporary_pk |-> NextPk(pk), inner |-> Bytes(2, 42)])
     IN  HopPacket("forged", <<>>, plain,
             OnionRequest1_to_bytes(
                 [nonce |-> n, temporary_pk |-> pk,
                  payload |-> Rep(MACBYTES, 0) \o plain, onion_return |-> ReturnFor(n)])) :
        pk \in PKs, n \in Nonces, ip \in IpPorts}

\* byte strings that are no OnionRequest1 at all, or one with another tag
HopMalformed ==
    {HopPacket("malformed", <<>>, <<>>, Take(<<tag>>, len) \o Bytes(len - 1, 11)) :
        len \in WireLens, tag \in {129, 128}}

HopPackets == HopBuilt \cup HopSealed \cup HopForged \cup HopMalformed

\* Received -> Decrypting | Dropped: the wire parse, OnionRequest1::from_bytes
HopParse ==
    /\ subject = "hop"
    /\ stage = "Received"
    /\ parsed' = OnionRequest1_from_bytes(wire)
    /\ stage' = IF parsed'.status = "Done" THEN "Decrypting" ELSE "Dropped"
    /\ UNCHANGED <<subject, now, cookie, tres, ec, origin, gkey, cres, req, wire, ores, fwd>>

\* Decrypting -> Decoded | Dropped: OnionRequest1::get_payload under the hop's secret
HopDecrypt ==
    /\ subject = "hop"
    /\ stage = "Decrypting"
    /\ ores' = OnionRequest1_get_payload(parsed.val, gkey)
    /\ stage' = IF ores'.tag = "ok" THEN "Decoded" ELSE "Dropped"
    /\ UNCHANGED <<subject, now, cookie, tres, ec, origin, gkey, cres, req, wire, parsed, fwd>>

\* Decoded -> Forward(ip_port, inner, temporary_pk)
HopForward ==
    /\ subject = "hop"
    /\ stage = "Decoded"
    /\ fwd' = [sent |-> TRUE, ip_port |-> ores.val.ip_port, inner |-> ores.val.inner,
               temporary_pk |-> ores.val.temporary_pk]
    /\ stage' = "Forward"
    /\ UNCHANGED <<subject, now, cookie, tres, ec, origin, gkey, cres, req, wire, parsed, ores>>

----------------------------------------------------------------------------
(* Specification *)

vars ==
    <<subject, now, cookie, tres, ec, origin, gkey, cres, req, wire, parsed, ores,
      stage, fwd>>

InitTimeout ==
    /\ subject = "timeout"
    /\ now \in Times
    /\ cookie = Cookie_new(CHOOSE r \in PKs : TRUE, CHOOSE d \in PKs : TRUE, now)

InitCookie ==
    /\ subject = "cookie"
    /\ now = Small(MaxSmall)
    /\ cookie = NoCookie

InitOnion ==
    /\ subject = "onion"
    /\ now = Small(MaxSmall)
    /\ cookie = NoCookie

Init ==
    /\ InitTimeout \/ InitCookie \/ InitOnion
    /\ tres = NoTres
    /\ ec = NoEc
    /\ origin = NoOrigin
    /\ gkey = <<>>
    /\ cres = NoResult
    /\ req = NoReq
    /\ wire = <<>>
    /\ parsed = NoParsed
    /\ ores = NoResult
    /\ stage = "none"
    /\ fwd = NoFwd

Next ==
    \/ ClockAdvance
    \/ CookieNew
    \/ SetTime
    \/ IsTimedOut
    \/ MakeCookie
    \/ Encrypt
    \/ SealRaw
    \/ FlipByte
    \/ Truncate
    \/ Extend
    \/ ChangeNonce
    \/ GetPayload
    \/ OnionNew
    \/ OnionSealRaw
    \/ OnionLiteral
    \/ OnionToBytes
    \/ WireInput
    \/ OnionFromBytes
    \/ OnionGetPayload

Spec == Init /\ [][Next]_vars

\* a hop holding the secret gkey has just received the bytes wire
HopInit ==
    /\ subject = "hop"
    /\ now = Small(MaxSmall)
    /\ cookie = NoCookie
    /\ tres = NoTres
    /\ ec = NoEc
    /\ \E p \in HopPackets : origin = p.origin /\ wire = p.wire
    /\ gkey \in Keys
    /\ cres = NoResult
    /\ req = NoReq
    /\ parsed = NoParsed
    /\ ores = NoResult
    /\ stage = "Received"
    /\ fwd = NoFwd

HopNext ==
    \/ HopParse
    \/ HopDecrypt
    \/ HopForward

\* the handler is one synchronous pass over the packet: as long as it has neither
\* dropped nor forwarded the packet it moves on to another stage
HopAdvance ==
    /\ stage \in {"Received", "Decrypting", "Decoded"}
    /\ stage' \in {"Decrypting", "Decoded", "Forward", "Dropped"} \ {stage}

HopSpec == HopInit /\ [][HopNext]_vars /\ WF_stage(HopAdvance)

----------------------------------------------------------------------------
(* Properties *)

\* what the caller knows was sealed into the packet at hand
PlainBytes ==
    IF origin.kind = "new" /\ subject = "onion"
    THEN OnionRequest1Payload_to_bytes(origin.plain)
    ELSE origin.plain

\* C1: a cookie sealed by EncryptedCookie::new under key k and opened under the same k
\* by get_payload comes back Ok with the same time, real_pk and dht_pk, and the payload
\* of the encrypted cookie is always 88 bytes long.
C1_CookieEncryptDecrypt ==
    (subject = "cookie" /\ origin.kind = "new") =>
        /\ Len(ec.payload) = 88
        /\ (cres.tag # "none" /\ gkey = origin.key) =>
              /\ cres.tag = "ok"
              /\ cres.val.time = cookie.time
              /\ cres.val.real_pk = cookie.real_pk
              /\ cres.val.dht_pk = cookie.dht_pk

C1_Witness ==
    /\ subject = "cookie"
    /\ origin.kind = "new"
    /\ gkey = origin.key
    /\ cres.tag = "ok"
    /\ cookie.time = Big(0)

\* C2: get_payload(k) answers Ok(c) only when the payload is the seal, under k and the
\* stored nonce, of the 72 bytes of c; it answers an error for another key, a changed
\* nonce, a changed, truncated or extended ciphertext, and an authentic ciphertext
\* whose plaintext is not 72 bytes long.
C2_CookieGetPayloadRejects ==
    (subject = "cookie" /\ cres.tag # "none") =>
        /\ cres.tag = "ok" =>
              /\ Len(Cookie_to_bytes(cres.val)) = 72
              /\ ec.payload = seal(Cookie_to_bytes(cres.val), ec.nonce, gkey)
              /\ gkey = origin.key
              /\ PlainBytes = Cookie_to_bytes(cres.val)
        /\ gkey # origin.key => cres.tag = "err"
        /\ origin.kind = "altered" => cres.tag = "err"
        /\ (origin.kind = "raw" /\ Len(origin.plain) # 72) => cres.tag = "err"

C2_Witness ==
    /\ subject = "cookie"
    /\ origin.kind = "raw"
    /\ Len(origin.plain) = 123
    /\ gkey = origin.key
    /\ cres.tag = "err"

\* time + 15 < now over the naturals, computed without the sum: now lies after time
\* and more than 15 after it
TimedOutExact(c, clock) ==
    /\ u64_lt(c.time, clock)
    /\ u64_lt(U64(15), u64_sub(clock, c.time))

\* C3: is_timed_out returns true exactly when time + 15 < now, for every cookie and
\* every clock value.
C3_TimedOutIff ==
    tres.called => (~tres.panicked /\ (tres.value <=> TimedOutExact(cookie, now)))

\* C4: for a cookie from the future (time > now), whatever its time, is_timed_out
\* completes and returns false.
C4_FutureNotTimedOut ==
    (tres.called /\ u64_lt(now, cookie.time)) => (~tres.panicked /\ ~tres.value)

\* C5: every packet OnionRequest1::new builds serializes to at most
\* ONION_MAX_PACKET_SIZE bytes, so that from_bytes accepts its to_bytes.
C5_NewWithinMaxSize ==
    (subject = "onion" /\ origin.kind = "new") =>
        /\ Len(OnionRequest1_to_bytes(req)) <= ONION_MAX_PACKET_SIZE
        /\ parsed.status # "none" => parsed.status = "Done"

\* C6: from_bytes accepts an input exactly when it is at most ONION_MAX_PACKET_SIZE
\* bytes long, starts with 0x81 and holds at least 59 bytes after the 57-byte header;
\* an input that is too long is refused on its length, before its tag is looked at.
C6_FromBytesAccepts ==
    (subject = "onion" /\ parsed.status # "none") =>
        /\ parsed.status = "Done" <=>
              /\ Len(wire) <= ONION_MAX_PACKET_SIZE
              /\ Len(wire) >= 57 + 59
              /\ wire[1] = 129
        /\ Len(wire) > ONION_MAX_PACKET_SIZE =>
              (parsed.status = "Error" /\ parsed.err = "Verify")

C6_Witness ==
    /\ subject = "onion"
    /\ origin.kind = "wire"
    /\ Len(wire) = ONION_MAX_PACKET_SIZE
    /\ parsed.status = "Done"

\* C7: parsing the serialization of a packet of at most ONION_MAX_PACKET_SIZE bytes
\* gives the packet back and leaves no input: the payload is the bytes between offset
\* 57 and the last 59 bytes, the onion_return is the last 59 bytes.
C7_WireRoundTrip ==
    (/\ subject = "onion"
     /\ origin.kind \in {"new", "raw", "literal"}
     /\ parsed.status # "none"
     /\ Len(wire) <= ONION_MAX_PACKET_SIZE) =>
        /\ parsed.status = "Done"
        /\ parsed.rest = <<>>
        /\ parsed.val = req
        /\ parsed.val.payload = SubSeq(wire, 58, Len(wire) - 59)
        /\ OnionReturn_to_bytes(parsed.val.onion_return)
              = SubSeq(wire, Len(wire) - 58, Len(wire))

C7_Witness ==
    /\ subject = "onion"
    /\ origin.kind = "literal"
    /\ req.payload = <<>>
    /\ parsed.status = "Done"
    /\ parsed.val = req

\* C8: a packet built by OnionRequest1::new from a payload that fits the scratch
\* buffer keeps the given temporary_pk and onion_return, and get_payload under the
\* same shared secret returns the payload with the same ip_port, temporary_pk and inner.
C8_OnionEncryptDecrypt ==
    (subject = "onion" /\ origin.kind = "new") =>
        /\ req.temporary_pk = origin.pk
        /\ req.onion_return = origin.ret
        /\ (ores.tag # "none" /\ gkey = origin.key) =>
              /\ ores.tag = "ok"
              /\ ores.val.ip_port = origin.plain.ip_port
              /\ ores.val.temporary_pk = origin.plain.temporary_pk
              /\ ores.val.inner = origin.plain.inner

C8_Witness ==
    /\ subject = "onion"
    /\ origin.kind = "new"
    /\ origin.plain.inner = <<>>
    /\ gkey = origin.key
    /\ ores.tag = "ok"

\* C9: OnionRequest1::get_payload(s) answers Ok(p) only when the payload was sealed
\* under s and its plaintext is an IpPort, a 32-byte key and the rest as inner; it
\* answers an error for another shared secret and for an authentic plaintext that is
\* empty, shorter than IpPort and key, or does not start with a valid IpPort.
C9_OnionGetPayloadRejects ==
    (subject = "onion" /\ ores.tag # "none") =>
        /\ ores.tag = "ok" =>
              /\ gkey = origin.key
              /\ Len(PlainBytes) >= 19 + 32
              /\ PlainBytes[1] \in {2, 10}
              /\ ores.val.ip_port.ip_type = PlainBytes[1]
              /\ ores.val.ip_port.port = PlainBytes[18] * 256 + PlainBytes[19]
              /\ ores.val.temporary_pk = SubSeq(PlainBytes, 20, 51)
              /\ ores.val.inner = Drop(PlainBytes, 51)
        /\ gkey # origin.key => ores.tag = "err"
        /\ (origin.kind = "raw" /\ Len(origin.plain) < 19 + 32) => ores.tag = "err"
        /\ (origin.kind = "raw" /\ Len(origin.plain) > 0 /\ origin.plain[1] \notin {2, 10}) =>
              ores.tag = "err"

C9_Witness ==
    /\ subject = "onion"
    /\ origin.kind = "raw"
    /\ Len(origin.plain) = 19 + 32 - 1
    /\ gkey = origin.key
    /\ ores.tag = "err"

\* C10 as stated: the error of a parse failure is the same value as the error of a
\* decryption failure, in both get_payload operations.
C10_OneErrorValue ==
    /\ cres.tag = "err" => cres = CookieDecryptError
    /\ ores.tag = "err" => ores = OnionDecryptError

\* C10, amended: both get_payload operations report a decryption failure and a parse
\* failure under the same error kind, ErrorKind::Other, while the message tells the
\* two apart: it is the decrypt message exactly when the payload did not authenticate.
C10_OneErrorKind ==
    /\ cres.tag = "err" =>
          /\ cres.kind = "Other"
          /\ cres.msg = "Cookie decrypt error."
                <=> (origin.kind = "altered" \/ gkey # origin.key)
    /\ ores.tag = "err" =>
          /\ ores.kind = "Other"
          /\ ores.msg = "OnionRequest1 decrypt error: ()" <=> gkey # origin.key

C10_Witness ==
    /\ subject = "cookie"
    /\ origin.kind = "raw"
    /\ Len(origin.plain) = 0
    /\ gkey = origin.key
    /\ cres.tag = "err"
    /\ cres.msg # "Cookie decrypt error."

\* what the received bytes are, read off the wire layout rather than off the parser
HopWireOk ==
    /\ Len(wire) <= 1400
    /\ Len(wire) >= 1 + 24 + 32 + 59
    /\ wire[1] = 129

\* what the payload is, read off what the sender did rather than off get_payload
HopPlainOk ==
    /\ origin.kind \in {"built", "sealed"}
    /\ origin.key = gkey
    /\ Len(origin.plain) >= 19 + 32
    /\ origin.plain[1] \in {2, 10}

C11_Stages ==
    /\ stage \in {"Received", "Decrypting", "Decoded", "Forward", "Dropped"}
    /\ stage = "Received" => (parsed = NoParsed /\ ores = NoResult /\ ~fwd.sent)
    /\ ores # NoResult => (parsed.status = "Done" /\ HopWireOk)
    /\ stage = "Decrypting" =>
          (parsed.status = "Done" /\ HopWireOk /\ ores = NoResult /\ ~fwd.sent)
    /\ stage = "Decoded" => (HopWireOk /\ HopPlainOk /\ ores.tag = "ok" /\ ~fwd.sent)
    /\ stage = "Forward" =>
          /\ HopWireOk
          /\ HopPlainOk
          /\ ores.tag = "ok"
          /\ fwd.sent
          /\ fwd.ip_port.ip_type = origin.plain[1]
          /\ fwd.ip_port.port = origin.plain[18] * 256 + origin.plain[19]
          /\ fwd.temporary_pk = SubSeq(origin.plain, 20, 51)
          /\ fwd.inner = Drop(origin.plain, 51)
    /\ stage = "Dropped" =>
          /\ ~fwd.sent
          /\ \/ ~HopWireOk /\ parsed.status \in {"Error", "Incomplete"} /\ ores = NoResult
             \/ HopWireOk /\ ~HopPlainOk /\ ores.tag = "err"

C11_Step ==
    /\ stage = "Received" => stage' \in {"Decrypting", "Dropped"}
    /\ stage = "Decrypting" => stage' \in {"Decoded", "Dropped"}
    /\ stage = "Decoded" => stage' = "Forward"
    /\ stage = "Forward" => UNCHANGED vars
    /\ stage = "Dropped" => UNCHANGED vars
    /\ UNCHANGED <<wire, gkey>>

\* C11: a received onion packet goes Received, then Decrypting or Dropped, then Decoded
\* or Dropped, then Forward. get_payload is called only after from_bytes accepted the
\* wire bytes; Forward carries the ip_port, inner and temporary_pk of a payload that
\* opened under the hop's secret and parsed; a packet that fails the wire parse, the
\* open or the payload parse is Dropped, and a Dropped packet is never touched again
\* (no decryption, no forward, no retry); every packet ends in Dropped or Forward.
C11_HopStateMachine ==
    /\ []C11_Stages
    /\ [][C11_Step]_vars
    /\ <>(stage \in {"Dropped", "Forward"})

C11_Witness ==
    /\ subject = "hop"
    /\ stage = "Forward"
    /\ fwd.sent
    /\ Len(fwd.inner) = 2
    /\ fwd.temporary_pk # SubSeq(wire, 26, 57)

====
